---- MODULE Spec2Model ----
(***************************************************************************)
(* Infix-to-postfix translation (infix2postfix.py) and the line-oriented   *)
(* lexer (infix2postfix2.py).                                              *)
(*                                                                         *)
(* Strings are sequences of one-character strings, so "1+2" is             *)
(* <<"1", "+", "2">> and indices of the source (0-based) are one less than *)
(* the positions of the sequence (1-based).                                *)
(***************************************************************************)
EXTENDS Integers, Sequences, FiniteSets, TLC

VARIABLES
    expression,   \* main: the expression given to LexicalAnalyzer(expression)
    lexer,        \* LexicalAnalyzer: stream position, offset, buffer
    lookahead,    \* Translator.lookahead
    result,       \* Translator.result (the io.StringIO buffer)
    stack,        \* return points of the active t_expr/t_rest/t_factor calls
    pc,           \* position of the translation
    retval,       \* value returned by Translator.go()
    error,        \* TranslationError raised out of Translator.go()
    printed,      \* what main printed after the translation
    expressions,  \* main: the expressions the loop of line 224 has yet to take
    stdout,       \* main: everything printed so far, one entry per expression
    all_translations_successful,  \* main: the flag of that name
    exit_code,    \* what main returned
    f,            \* Lexer.f: the number of lines the stream has delivered
    line,         \* the line the generator Lexer.__iter__ is scanning
    chars,        \* the CharacterIterator of that line
    lineno,       \* Lexer.lineno
    linecol,      \* Lexer.linecol
    symbol_table, \* Lexer.symbol_table
    lpc,          \* position of the generator Lexer.__iter__ and of main
    token,        \* the token the generator yielded last
    yielded,      \* main, line 200: the tokens printed since the line was read
    eofs,         \* main, line 200: the number of eof tokens printed so far
    parse_exception, \* the character of the ParseException the generator raised
    report        \* what main of infix2postfix2.py printed on a ParseException

mvars == <<expressions, stdout, all_translations_successful, exit_code>>

tvars == <<expression, lexer, lookahead, result, stack, pc, retval, error, printed,
           mvars>>

lvars == <<f, line, chars, lineno, linecol, symbol_table, lpc, token, yielded,
           eofs, parse_exception, report>>

vars == <<tvars, lvars>>

(***************************************************************************)
(* Bounds and inputs                                                       *)
(***************************************************************************)
MaxLen == 5

Alphabet == {"1", "2", "+", "-", "(", ")", " ", "@"}

Scenarios ==
    { <<"1", "+", "2", "-", "3">>,
      <<"(", "1", "+", "2", ")", "-", "3">>,
      <<"1", "+", "*", "2">>,
      <<"1", "2", "3", "a", "b", "c">>,
      <<"1", "+", "(", "2", "-", "3", ")">>,
      <<"(", "1", "2", " ", "+", "\t", "3", ")", "\n">> }

Expressions == UNION {[1..n -> Alphabet] : n \in 0..MaxLen} \cup Scenarios

\* The argument lists of main: an expression and the same expression in
\* parentheses, and the lists of ArgumentScenarios.
Parenthesized(e) == <<"(">> \o e \o <<")">>

ArgumentScenarios ==
    { << <<"1", "+", "2", "-", "3">>, <<"(", "1", "+", "2", ")", "-", "3">> >>,
      << <<"0", "0", "7">> >>,
      << <<"1", "0">>, <<"1", "+">>, <<"2">> >> }

Arguments == {<<e, Parenthesized(e)>> : e \in Expressions} \cup ArgumentScenarios

\* The lines of the stream given to the line-oriented lexer: up to MaxPieces
\* pieces written one after the other, and at most MaxLines of them.
MaxPieces == 2
MaxLines == 2
MaxLaterPieces == 1

Pieces ==
    { <<"+">>, <<"-">>, <<"*">>, <<"/">>, <<"(">>, <<")">>, <<";">>,
      <<"1">>, <<"a">>, <<"m", "o", "d">>, <<"d", "i", "v">>, <<" ">>, <<"@">> }

RECURSIVE Flatten(_)
Flatten(ps) == IF ps = <<>> THEN <<>> ELSE Head(ps) \o Flatten(Tail(ps))

LineScenarios ==
    { <<"1", "2", "3", "a", "b", "c">>,
      <<"m", "o", "d">>,
      <<"1", "2", " ", "+", " ", "x", "1", "\n">> }

Lines ==
    {Flatten(ps) : ps \in UNION {[1..n -> Pieces] : n \in 0..MaxPieces}}
        \cup LineScenarios

\* The lines that follow the first line of the input
LaterLines ==
    {Flatten(ps) : ps \in UNION {[1..n -> Pieces] : n \in 0..MaxLaterPieces}}
        \cup LineScenarios

(***************************************************************************)
(* infix2postfix.py: Token, LexicalAnalyzer, TranslationError              *)
(***************************************************************************)
T_NUMBER == "T_NUMBER"
T_PLUS == "T_PLUS"
T_MINUS == "T_MINUS"
T_LPAREN == "T_LPAREN"
T_RPAREN == "T_RPAREN"

DIGITS == {"0", "1", "2", "3", "4", "5", "6", "7", "8", "9"}
WHITESPACE == {" ", "\t", "\n", "\r"}

\* Python's None, as a character (buffer), as a token (lookahead), as a
\* string (retval) and as an exception (error).
NoChar == "None"
None == [id |-> "None", value |-> <<>>, offset |-> -1]
NoString == <<"None">>
NoError == [offset |-> -1, fmt |-> "None", arg |-> <<>>]

Token(id, value, offset) == [id |-> id, value |-> value, offset |-> offset]

TranslationError(offset, fmt, arg) == [offset |-> offset, fmt |-> fmt, arg |-> arg]

\* LexicalAnalyzer.__init__: pos is the number of characters the iterator
\* self.stream has delivered; asserted is FALSE once an assert has failed.
LexicalAnalyzer ==
    [pos |-> 0, offset |-> 0, buffer |-> NoChar, asserted |-> TRUE]

\* _getchar with the offset advanced before the stream is read, so that it
\* also counts the reads that hit the end of the input
_getchar_offset_first(s, lex) ==
    IF lex.buffer # NoChar
    THEN [stop |-> FALSE, c |-> lex.buffer,
          lex |-> [lex EXCEPT !.buffer = NoChar, !.offset = lex.offset + 1]]
    ELSE IF lex.pos < Len(s)
    THEN [stop |-> FALSE, c |-> s[lex.pos + 1],
          lex |-> [lex EXCEPT !.pos = lex.pos + 1, !.offset = lex.offset + 1]]
    ELSE [stop |-> TRUE, c |-> NoChar, lex |-> [lex EXCEPT !.offset = lex.offset + 1]]

\* _getchar with a re-read of the buffer that leaves the offset alone
_getchar_reread_uncounted(s, lex) ==
    IF lex.buffer # NoChar
    THEN [stop |-> FALSE, c |-> lex.buffer, lex |-> [lex EXCEPT !.buffer = NoChar]]
    ELSE IF lex.pos < Len(s)
    THEN [stop |-> FALSE, c |-> s[lex.pos + 1],
          lex |-> [lex EXCEPT !.pos = lex.pos + 1, !.offset = lex.offset + 1]]
    ELSE [stop |-> TRUE, c |-> NoChar, lex |-> lex]

\* _getchar: stop is TRUE when next(self.stream) raises StopIteration, which
\* happens before the offset is touched.
_getchar(s, lex) ==
    IF lex.buffer # NoChar
    THEN [stop |-> FALSE, c |-> lex.buffer,
          lex |-> [lex EXCEPT !.buffer = NoChar, !.offset = lex.offset + 1]]
    ELSE IF lex.pos < Len(s)
    THEN [stop |-> FALSE, c |-> s[lex.pos + 1],
          lex |-> [lex EXCEPT !.pos = lex.pos + 1, !.offset = lex.offset + 1]]
    ELSE [stop |-> TRUE, c |-> NoChar, lex |-> lex]

\* LexicalAnalyzer._ungetchar, lines 119-121, without the decrement of line 122
_ungetchar_no_decrement(lex, c) ==
    [lex EXCEPT !.asserted = lex.asserted /\ (lex.buffer = NoChar),
                !.buffer = c]

_ungetchar(lex, c) ==
    [lex EXCEPT !.asserted = lex.asserted /\ (lex.buffer = NoChar),
                !.buffer = c,
                !.offset = lex.offset - 1]

\* The inner loop of __next__ (lines 79-86): out already holds the digit c.
RECURSIVE ScanNumber(_, _, _)
ScanNumber(s, lex, out) ==
    LET g == _getchar(s, lex) IN
    IF g.stop THEN [lex |-> lex, value |-> out]
    ELSE IF g.c \in DIGITS THEN ScanNumber(s, g.lex, Append(out, g.c))
    ELSE [lex |-> _ungetchar(g.lex, g.c), value |-> out]

\* LexicalAnalyzer.__next__: kind is "token", "stop" (StopIteration) or
\* "raise" (TranslationError).
RECURSIVE __next__(_, _)
__next__(s, lex) ==
    LET g == _getchar(s, lex) IN
    IF g.stop
    THEN [kind |-> "stop", token |-> None, error |-> NoError, lex |-> g.lex]
    ELSE IF g.c \in DIGITS
    THEN LET n == ScanNumber(s, g.lex, <<g.c>>) IN
         [kind |-> "token", token |-> Token(T_NUMBER, n.value, n.lex.offset),
          error |-> NoError, lex |-> n.lex]
    ELSE IF g.c = "+"
    THEN [kind |-> "token", token |-> Token(T_PLUS, <<g.c>>, g.lex.offset),
          error |-> NoError, lex |-> g.lex]
    ELSE IF g.c = "-"
    THEN [kind |-> "token", token |-> Token(T_MINUS, <<g.c>>, g.lex.offset),
          error |-> NoError, lex |-> g.lex]
    ELSE IF g.c = "("
    THEN [kind |-> "token", token |-> Token(T_LPAREN, <<g.c>>, g.lex.offset),
          error |-> NoError, lex |-> g.lex]
    ELSE IF g.c = ")"
    THEN [kind |-> "token", token |-> Token(T_RPAREN, <<g.c>>, g.lex.offset),
          error |-> NoError, lex |-> g.lex]
    ELSE IF g.c \in WHITESPACE
    THEN __next__(s, g.lex)
    ELSE [kind |-> "raise", token |-> None,
          error |-> TranslationError(g.lex.offset, "invalid character: %s", <<g.c>>),
          lex |-> g.lex]

(***************************************************************************)
(* infix2postfix.py: Translator                                            *)
(***************************************************************************)
Push(frame) == <<frame>> \o stack

\* self.lookahead = next(self.tokens, None), then continue at pc_after with
\* the stack stack_after.  A TranslationError raised by the lexer leaves go().
Advance(pc_after, stack_after) ==
    LET r == __next__(expression, lexer) IN
    /\ lexer' = r.lex
    /\ IF r.kind = "raise"
       THEN /\ pc' = "raised"
            /\ error' = r.error
            /\ stack' = <<>>
            /\ UNCHANGED lookahead
       ELSE /\ lookahead' = r.token
            /\ pc' = pc_after
            /\ stack' = stack_after
            /\ UNCHANGED error

\* raise TranslationError(self.tokens.offset, ...)
Raise(fmt, arg) ==
    /\ pc' = "raised"
    /\ error' = TranslationError(lexer.offset, fmt, arg)
    /\ stack' = <<>>
    /\ UNCHANGED <<lexer, lookahead>>

\* return from t_expr, t_rest or t_factor to the caller's return point
Return(frames) ==
    /\ pc' = Head(frames)
    /\ stack' = Tail(frames)

\* go, line 164-165
go ==
    /\ pc = "go"
    /\ Advance("t_expr", <<"go:166">>)
    /\ UNCHANGED <<lvars, mvars, expression, result, retval, printed>>

\* t_expr, line 172
t_expr ==
    /\ pc = "t_expr"
    /\ pc' = "t_factor"
    /\ stack' = Push("t_expr:173")
    /\ UNCHANGED <<lvars, mvars, expression, lexer, lookahead, result, retval, error, printed>>

\* t_expr, line 173
t_expr_rest ==
    /\ pc = "t_expr:173"
    /\ pc' = "t_rest"
    /\ stack' = Push("t_expr:end")
    /\ UNCHANGED <<lvars, mvars, expression, lexer, lookahead, result, retval, error, printed>>

\* t_expr returns
t_expr_return ==
    /\ pc = "t_expr:end"
    /\ Return(stack)
    /\ UNCHANGED <<lvars, mvars, expression, lexer, lookahead, result, retval, error, printed>>

\* t_rest, lines 179-180
t_rest_eof ==
    /\ pc = "t_rest"
    /\ lookahead = None
    /\ Return(stack)
    /\ UNCHANGED <<lvars, mvars, expression, lexer, lookahead, result, retval, error, printed>>

\* t_rest, lines 178-181, with the loop continued where line 190 leaves it
t_rest_break_missing ==
    /\ pc = "t_rest"
    /\ lookahead # None
    /\ lookahead.id \notin {T_PLUS, T_MINUS}
    /\ UNCHANGED vars

\* t_rest, lines 189-190
t_rest_break ==
    /\ pc = "t_rest"
    /\ lookahead # None
    /\ lookahead.id \notin {T_PLUS, T_MINUS}
    /\ Return(stack)
    /\ UNCHANGED <<lvars, mvars, expression, lexer, lookahead, result, retval, error, printed>>

\* t_rest, lines 181-183
t_rest_plus_not_consumed ==
    /\ pc = "t_rest"
    /\ lookahead # None
    /\ lookahead.id = T_PLUS
    /\ pc' = "t_factor"
    /\ stack' = Push("t_rest:184")
    /\ UNCHANGED <<lvars, mvars, expression, lexer, lookahead, result, retval, error, printed>>

\* t_rest, lines 180-183
t_rest_plus ==
    /\ pc = "t_rest"
    /\ lookahead # None
    /\ lookahead.id = T_PLUS
    /\ Advance("t_factor", Push("t_rest:184"))
    /\ UNCHANGED <<lvars, mvars, expression, result, retval, printed>>

\* t_rest, line 184
t_rest_write_plus ==
    /\ pc = "t_rest:184"
    /\ result' = result \o <<"+", " ">>
    /\ pc' = "t_rest"
    /\ UNCHANGED <<lvars, mvars, expression, lexer, lookahead, stack, retval, error, printed>>

\* t_rest, lines 185-187
t_rest_minus ==
    /\ pc = "t_rest"
    /\ lookahead # None
    /\ lookahead.id = T_MINUS
    /\ Advance("t_factor", Push("t_rest:188"))
    /\ UNCHANGED <<lvars, mvars, expression, result, retval, printed>>

\* t_rest, line 188, writing the operator of the other branch
t_rest_write_minus_as_plus ==
    /\ pc = "t_rest:188"
    /\ result' = result \o <<"+", " ">>
    /\ pc' = "t_rest"
    /\ UNCHANGED <<lvars, mvars, expression, lexer, lookahead, stack, retval, error, printed>>

\* t_rest, line 188
t_rest_write_minus ==
    /\ pc = "t_rest:188"
    /\ result' = result \o <<"-", " ">>
    /\ pc' = "t_rest"
    /\ UNCHANGED <<lvars, mvars, expression, lexer, lookahead, stack, retval, error, printed>>

\* t_factor, lines 193-195
t_factor_eof ==
    /\ pc = "t_factor"
    /\ lookahead = None
    /\ Raise("expected term but reached end-of-input", <<>>)
    /\ UNCHANGED <<lvars, mvars, expression, result, retval, printed>>

\* t_factor, lines 196-198, writing the parenthesis as it does a number
t_factor_lparen_written ==
    /\ pc = "t_factor"
    /\ lookahead # None
    /\ lookahead.id = T_LPAREN
    /\ result' = result \o lookahead.value \o <<" ">>
    /\ Advance("t_expr", Push("t_factor:199"))
    /\ UNCHANGED <<lvars, mvars, expression, retval, printed>>

\* t_factor, lines 196-198
t_factor_lparen ==
    /\ pc = "t_factor"
    /\ lookahead # None
    /\ lookahead.id = T_LPAREN
    /\ Advance("t_expr", Push("t_factor:199"))
    /\ UNCHANGED <<lvars, mvars, expression, result, retval, printed>>

\* t_factor, lines 199-201
t_factor_rparen_eof_accepted ==
    /\ pc = "t_factor:199"
    /\ lookahead = None
    /\ Return(stack)
    /\ UNCHANGED <<lvars, mvars, expression, lexer, lookahead, result, retval, error, printed>>

\* t_factor, lines 199-201
t_factor_rparen_eof ==
    /\ pc = "t_factor:199"
    /\ lookahead = None
    /\ Raise("expected RPAREN but reached end-of-input", <<>>)
    /\ UNCHANGED <<lvars, mvars, expression, result, retval, printed>>

\* t_factor, lines 202-204
t_factor_rparen_other ==
    /\ pc = "t_factor:199"
    /\ lookahead # None
    /\ lookahead.id # T_RPAREN
    /\ Raise("expected RPAREN but got \"%s\"", lookahead.value)
    /\ UNCHANGED <<lvars, mvars, expression, result, retval, printed>>

\* t_factor, line 211 reached without the test of line 202
t_factor_rparen_unchecked ==
    /\ pc = "t_factor:199"
    /\ lookahead # None
    /\ Advance(Head(stack), Tail(stack))
    /\ UNCHANGED <<lvars, mvars, expression, result, retval, printed>>

\* t_factor, lines 202 (no branch taken) and 211
t_factor_rparen ==
    /\ pc = "t_factor:199"
    /\ lookahead # None
    /\ lookahead.id = T_RPAREN
    /\ Advance(Head(stack), Tail(stack))
    /\ UNCHANGED <<lvars, mvars, expression, result, retval, printed>>

\* The decimal digits of int(value): value without its leading zeros
RECURSIVE Canonical(_)
Canonical(value) ==
    IF Len(value) > 1 /\ Head(value) = "0" THEN Canonical(Tail(value)) ELSE value

\* t_factor, lines 205-206 and 211, writing the number's value instead of its
\* lexeme
t_factor_number_converted ==
    /\ pc = "t_factor"
    /\ lookahead # None
    /\ lookahead.id = T_NUMBER
    /\ result' = result \o Canonical(lookahead.value) \o <<" ">>
    /\ Advance(Head(stack), Tail(stack))
    /\ UNCHANGED <<lvars, mvars, expression, retval, printed>>

\* t_factor, lines 205-206 and 211
t_factor_number ==
    /\ pc = "t_factor"
    /\ lookahead # None
    /\ lookahead.id = T_NUMBER
    /\ result' = result \o lookahead.value \o <<" ">>
    /\ Advance(Head(stack), Tail(stack))
    /\ UNCHANGED <<lvars, mvars, expression, retval, printed>>

\* t_factor, lines 207-209
t_factor_other ==
    /\ pc = "t_factor"
    /\ lookahead # None
    /\ lookahead.id \notin {T_LPAREN, T_NUMBER}
    /\ Raise("expected term but found \"%s\"", lookahead.value)
    /\ UNCHANGED <<lvars, mvars, expression, result, retval, printed>>

\* go, lines 166-169 returning the buffer although a token is left over
go_extraneous_ignored ==
    /\ pc = "go:166"
    /\ lookahead # None
    /\ retval' = result
    /\ pc' = "returned"
    /\ UNCHANGED <<lvars, mvars, expression, lexer, lookahead, result, stack, error, printed>>

\* go, lines 166-168
go_extraneous ==
    /\ pc = "go:166"
    /\ lookahead # None
    /\ Raise("extranuous characters: \"%s\"", lookahead.value)
    /\ UNCHANGED <<lvars, mvars, expression, result, retval, printed>>

\* go, line 169
go_return ==
    /\ pc = "go:166"
    /\ lookahead = None
    /\ retval' = result
    /\ pc' = "returned"
    /\ UNCHANGED <<lvars, mvars, expression, lexer, lookahead, result, stack, error, printed>>

\* main, lines 230-232 printing the buffer of the failed translator
main_except_partial ==
    /\ pc = "raised"
    /\ printed' = [kind |-> "error", offset |-> error.offset, fmt |-> error.fmt,
                   arg |-> error.arg, translation |-> result]
    /\ stdout' = Append(stdout, [expression |-> expression, printed |-> printed'])
    /\ all_translations_successful' = FALSE
    /\ pc' = "done"
    /\ UNCHANGED <<lvars, expressions, exit_code, expression, lexer, lookahead,
                   result, stack, retval, error>>

\* main, lines 230-232
main_except ==
    /\ pc = "raised"
    /\ printed' = [kind |-> "error", offset |-> error.offset, fmt |-> error.fmt,
                   arg |-> error.arg, translation |-> NoString]
    /\ stdout' = Append(stdout, [expression |-> expression, printed |-> printed'])
    /\ all_translations_successful' = FALSE
    /\ pc' = "done"
    /\ UNCHANGED <<lvars, expressions, exit_code, expression, lexer, lookahead,
                   result, stack, retval, error>>

\* main, lines 233-234
main_else ==
    /\ pc = "returned"
    /\ printed' = [kind |-> "translation", offset |-> -1, fmt |-> "None",
                   arg |-> <<>>, translation |-> retval]
    /\ stdout' = Append(stdout, [expression |-> expression, printed |-> printed'])
    /\ pc' = "done"
    /\ UNCHANGED <<lvars, expressions, all_translations_successful, exit_code,
                   expression, lexer, lookahead, result, stack, retval, error>>

NoPrint == [kind |-> "None", offset |-> -1, fmt |-> "None", arg |-> <<>>,
            translation |-> NoString]

\* main, lines 224-227: the loop takes the next expression and constructs a
\* lexer and a translator for it
main_for ==
    /\ pc = "done"
    /\ expressions # <<>>
    /\ expression' = Head(expressions)
    /\ expressions' = Tail(expressions)
    /\ lexer' = LexicalAnalyzer
    /\ lookahead' = None
    /\ result' = <<>>
    /\ stack' = <<>>
    /\ retval' = NoString
    /\ error' = NoError
    /\ printed' = NoPrint
    /\ pc' = "go"
    /\ UNCHANGED <<lvars, stdout, all_translations_successful, exit_code>>

\* main, lines 224 and 236: the loop is over
main_return ==
    /\ pc = "done"
    /\ expressions = <<>>
    /\ exit_code' = (IF all_translations_successful THEN 0 ELSE 1)
    /\ pc' = "exit"
    /\ UNCHANGED <<lvars, expressions, stdout, all_translations_successful,
                   expression, lexer, lookahead, result, stack, retval, error,
                   printed>>


(***************************************************************************)
(* infix2postfix2.py: CharacterIterator, Token, Lexer                      *)
(***************************************************************************)
T_EOF == "eof"
T_ADD == "+"
T_SUBTRACT == "-"
T_MULTIPLY == "*"
T_DIVIDE == "/"
T_MODULO == "mod"
T_INTDIVIDE == "div"
T_NUMBER2 == "number"
T_ID == "id"
T_LPAREN2 == "LPAREN"
T_RPAREN2 == "RPAREN"
T_EXPR_SEP == "EXPR_SEP"

\* str.isspace, str.isdigit and str.isalpha on ASCII characters
isspace(c) == c \in {" ", "\t", "\n", "\r", "\f"}
isdigit(c) == c \in {"0", "1", "2", "3", "4", "5", "6", "7", "8", "9"}
isalpha(c) ==
    c \in {"a", "b", "c", "d", "e", "f", "g", "h", "i", "j", "k", "l", "m",
           "n", "o", "p", "q", "r", "s", "t", "u", "v", "w", "x", "y", "z",
           "A", "B", "C", "D", "E", "F", "G", "H", "I", "J", "K", "L", "M",
           "N", "O", "P", "Q", "R", "S", "T", "U", "V", "W", "X", "Y", "Z"}

\* Token(id, lexeme) of infix2postfix2.py
LexerToken(id, lexeme) == [id |-> id, lexeme |-> lexeme]

NoToken == LexerToken("None", NoString)

\* CharacterIterator.__init__: pos is the number of characters self.iter has
\* delivered; asserted is FALSE once an assert has failed.
CharacterIterator == [pos |-> 0, _pushback |-> NoChar, asserted |-> TRUE]

\* CharacterIterator.pushback
pushback(it, c) ==
    [it EXCEPT !.asserted = it.asserted /\ c # NoChar /\ it._pushback = NoChar,
               !._pushback = c]

\* CharacterIterator.__next__
CharacterIterator_next(s, it) ==
    IF it._pushback # NoChar
    THEN [stop |-> FALSE, c |-> it._pushback, it |-> [it EXCEPT !._pushback = NoChar]]
    ELSE IF it.pos < Len(s)
    THEN [stop |-> FALSE, c |-> s[it.pos + 1], it |-> [it EXCEPT !.pos = it.pos + 1]]
    ELSE [stop |-> TRUE, c |-> NoChar, it |-> it]

\* Lexer.__init__, lines 121-124, with the keyword registered under another
\* spelling
predefined_tokens_misspelt ==
    { LexerToken(T_MODULO, <<"m", "o", "d", "u", "l", "o">>),
      LexerToken(T_INTDIVIDE, <<"d", "i", "v">>) }

\* Lexer.__init__, lines 121-126
predefined_tokens ==
    { LexerToken(T_MODULO, <<"m", "o", "d">>),
      LexerToken(T_INTDIVIDE, <<"d", "i", "v">>) }

SymbolTable(tokens) ==
    [x \in {t.lexeme : t \in tokens} |-> CHOOSE t \in tokens : t.lexeme = x]

\* Lexer.__iter__, lines 157-162, leaving the loop after the first digit
NumberLoop_one_digit(s, it, buf) == [it |-> it, lexeme |-> buf]

\* Lexer.__iter__, lines 157-162: buf already holds the digit c
RECURSIVE NumberLoop(_, _, _)
NumberLoop(s, it, buf) ==
    LET n == CharacterIterator_next(s, it) IN
    IF n.stop THEN [it |-> n.it, lexeme |-> buf]
    ELSE IF isdigit(n.c) THEN NumberLoop(s, n.it, Append(buf, n.c))
    ELSE [it |-> pushback(n.it, n.c), lexeme |-> buf]

\* Lexer.__iter__, lines 169-174, without the pushback of line 173
RECURSIVE IdLoop_no_pushback(_, _, _)
IdLoop_no_pushback(s, it, buf) ==
    LET n == CharacterIterator_next(s, it) IN
    IF n.stop THEN [it |-> n.it, lexeme |-> buf]
    ELSE IF isalpha(n.c) \/ isdigit(n.c)
    THEN IdLoop_no_pushback(s, n.it, Append(buf, n.c))
    ELSE [it |-> n.it, lexeme |-> buf]

\* Lexer.__iter__, lines 169-174: buf already holds the letter c
RECURSIVE IdLoop(_, _, _)
IdLoop(s, it, buf) ==
    LET n == CharacterIterator_next(s, it) IN
    IF n.stop THEN [it |-> n.it, lexeme |-> buf]
    ELSE IF isalpha(n.c) \/ isdigit(n.c) THEN IdLoop(s, n.it, Append(buf, n.c))
    ELSE [it |-> pushback(n.it, n.c), lexeme |-> buf]

Yield(tok, it, col, tab) ==
    [kind |-> "yield", token |-> tok, it |-> it, linecol |-> col,
     symbol_table |-> tab, arg |-> NoChar]

\* Lexer.__iter__, lines 134-188: the loop over the characters of one line,
\* run from the iterator state it until the generator yields or raises.
RECURSIVE ForChars(_, _, _, _)
ForChars(s, it, col, tab) ==
    LET n == CharacterIterator_next(s, it)
        c == n.c
        col1 == col + 1
    IN
    IF n.stop
    THEN [kind |-> "eof", token |-> LexerToken(T_EOF, NoString), it |-> n.it,
          linecol |-> col, symbol_table |-> tab, arg |-> NoChar]
    ELSE IF isspace(c) THEN ForChars(s, n.it, col1, tab)
    ELSE IF c = "+" THEN Yield(LexerToken(T_ADD, <<c>>), n.it, col1, tab)
    ELSE IF c = "-" THEN Yield(LexerToken(T_SUBTRACT, <<c>>), n.it, col1, tab)
    ELSE IF c = "*" THEN Yield(LexerToken(T_MULTIPLY, <<c>>), n.it, col1, tab)
    ELSE IF c = "/" THEN Yield(LexerToken(T_DIVIDE, <<c>>), n.it, col1, tab)
    ELSE IF c = ")" THEN Yield(LexerToken(T_LPAREN2, <<c>>), n.it, col1, tab)
    ELSE IF c = "(" THEN Yield(LexerToken(T_RPAREN2, <<c>>), n.it, col1, tab)
    ELSE IF c = ";" THEN Yield(LexerToken(T_EXPR_SEP, <<c>>), n.it, col1, tab)
    ELSE IF isdigit(c)
    THEN LET r == NumberLoop(s, n.it, <<c>>) IN
         Yield(LexerToken(T_NUMBER2, r.lexeme), r.it, col1, tab)
    ELSE IF isalpha(c)
    THEN LET r == IdLoop(s, n.it, <<c>>) IN
         IF r.lexeme \in DOMAIN tab
         THEN Yield(tab[r.lexeme], r.it, col1, tab)
         ELSE LET tok == LexerToken(T_ID, r.lexeme) IN
              Yield(tok, r.it, col1, (r.lexeme :> tok) @@ tab)
    ELSE [kind |-> "raise", token |-> NoToken, it |-> n.it, linecol |-> col1,
          symbol_table |-> tab, arg |-> c]

\* The generator stops at the yield or raise that r describes; main prints
\* the token yielded after the tokens sofar.
Suspend(r, sofar) ==
    /\ chars' = r.it
    /\ linecol' = r.linecol
    /\ symbol_table' = r.symbol_table
    /\ IF r.kind = "raise"
       THEN /\ lpc' = "raised"
            /\ parse_exception' = r.arg
            /\ yielded' = sofar
            /\ UNCHANGED <<token, eofs>>
       ELSE /\ lpc' = (IF r.kind = "eof" THEN "eol" ELSE "inline")
            /\ token' = r.token
            /\ yielded' = Append(sofar, r.token)
            /\ eofs' = (IF r.token.id = T_EOF THEN eofs + 1 ELSE eofs)
            /\ UNCHANGED parse_exception

\* Lexer.__iter__, lines 129-133 and the loop over the line's characters:
\* the stream delivers another line
Lexer_iter_line ==
    /\ lpc \in {"start", "eol"}
    /\ f < MaxLines
    /\ \E s \in (IF f = 0 THEN Lines ELSE LaterLines) :
        /\ line' = s
        /\ f' = f + 1
        /\ lineno' = lineno + 1
        /\ Suspend(ForChars(s, CharacterIterator, 0, symbol_table), <<>>)
    /\ UNCHANGED <<tvars, report>>

\* Lexer.__iter__, line 129: the stream is exhausted and the generator ends
Lexer_iter_stop ==
    /\ lpc \in {"start", "eol"}
    /\ lpc' = "finished"
    /\ UNCHANGED <<tvars, f, line, chars, lineno, linecol, symbol_table, token,
                   yielded, eofs, parse_exception, report>>

\* Lexer.__iter__, lines 134-188: resumed after a yield inside a line
Lexer_iter_resume ==
    /\ lpc = "inline"
    /\ Suspend(ForChars(line, chars, linecol, symbol_table), yielded)
    /\ UNCHANGED <<tvars, f, line, lineno, report>>

\* main of infix2postfix2.py, lines 201-204
lexer_main_except ==
    /\ lpc = "raised"
    /\ report' = [kind |-> "ERROR", lineno |-> lineno, linecol |-> linecol,
                  arg |-> parse_exception, exitcode |-> 1]
    /\ lpc' = "done"
    /\ UNCHANGED <<tvars, f, line, chars, lineno, linecol, symbol_table, token,
                   yielded, eofs, parse_exception>>

\* main of infix2postfix2.py, line 206
lexer_main_return ==
    /\ lpc = "finished"
    /\ report' = [kind |-> "None", lineno |-> -1, linecol |-> -1,
                  arg |-> NoChar, exitcode |-> 0]
    /\ lpc' = "done"
    /\ UNCHANGED <<tvars, f, line, chars, lineno, linecol, symbol_table, token,
                   yielded, eofs, parse_exception>>

NoReport == [kind |-> "None", lineno |-> -1, linecol |-> -1, arg |-> NoChar,
             exitcode |-> -1]

(***************************************************************************)
(* Specifications                                                          *)
(***************************************************************************)
\* Translator(LexicalAnalyzer(expression)) as main constructs it, lines 226-227
TranslatorInit ==
    /\ lexer = LexicalAnalyzer
    /\ lookahead = None
    /\ result = <<>>
    /\ stack = <<>>
    /\ retval = NoString
    /\ error = NoError
    /\ printed = NoPrint
    /\ stdout = <<>>
    /\ all_translations_successful = TRUE
    /\ exit_code = -1

\* Lexer(sys.stdin) as main of infix2postfix2.py constructs it, line 197
LexerInit ==
    /\ f = 0
    /\ line = <<>>
    /\ chars = CharacterIterator
    /\ lineno = 0
    /\ linecol = 0
    /\ symbol_table = SymbolTable(predefined_tokens)
    /\ token = NoToken
    /\ yielded = <<>>
    /\ eofs = 0
    /\ parse_exception = NoChar
    /\ report = NoReport

\* infix2postfix.py translating one expression
Init ==
    /\ \E args \in Arguments :
        /\ expression = Head(args)
        /\ expressions = Tail(args)
    /\ pc = "go"
    /\ TranslatorInit
    /\ lpc = "idle"
    /\ LexerInit

Next ==
    \/ go
    \/ t_expr
    \/ t_expr_rest
    \/ t_expr_return
    \/ t_rest_eof
    \/ t_rest_break
    \/ t_rest_plus
    \/ t_rest_write_plus
    \/ t_rest_minus
    \/ t_rest_write_minus
    \/ t_factor_eof
    \/ t_factor_lparen
    \/ t_factor_rparen_eof
    \/ t_factor_rparen_other
    \/ t_factor_rparen
    \/ t_factor_number
    \/ t_factor_other
    \/ go_extraneous
    \/ go_return
    \/ main_except
    \/ main_else
    \/ main_for
    \/ main_return

Spec == Init /\ [][Next]_vars

\* infix2postfix2.py tokenizing the lines of a stream
\* The program run on the command lines of one short expression, and on the
\* command lines of ArgumentScenarios
MaxShortLen == 3

ShortArguments ==
    {<<e>> : e \in UNION {[1..n -> Alphabet] : n \in 0..MaxShortLen}}
        \cup {<<e>> : e \in Scenarios} \cup ArgumentScenarios

ShortInit ==
    /\ \E args \in ShortArguments :
        /\ expression = Head(args)
        /\ expressions = Tail(args)
    /\ pc = "go"
    /\ TranslatorInit
    /\ lpc = "idle"
    /\ LexerInit

\* The interpreter runs the program's next statement as long as there is one
FairSpec == ShortInit /\ [][Next]_vars /\ WF_vars(Next)

LexerSpecInit ==
    /\ expression = <<>>
    /\ expressions = <<>>
    /\ pc = "idle"
    /\ TranslatorInit
    /\ lpc = "start"
    /\ LexerInit

LexerNext ==
    \/ Lexer_iter_line
    \/ Lexer_iter_stop
    \/ Lexer_iter_resume
    \/ lexer_main_except
    \/ lexer_main_return

LexerSpec == LexerSpecInit /\ [][LexerNext]_vars

\* Either program, run on its own
ProgramsInit == Init \/ LexerSpecInit

ProgramsNext == Next \/ LexerNext

ProgramsSpec == ProgramsInit /\ [][ProgramsNext]_vars

(***************************************************************************)
(* The grammar of the translation scheme, before the left recursion is     *)
(* eliminated, read off the characters of a string:                        *)
(*     expr -> expr + factor { print "+ " } | expr - factor { print "- " } *)
(*           | factor                                                      *)
(*     factor -> NUMBER { print NUMBER " " } | ( expr )                    *)
(* with whitespace allowed around every token.                             *)
(***************************************************************************)
RECURSIVE LStrip(_)
LStrip(s) == IF s # <<>> /\ Head(s) \in WHITESPACE THEN LStrip(Tail(s)) ELSE s

RECURSIVE RStrip(_)
RStrip(s) ==
    IF s # <<>> /\ s[Len(s)] \in WHITESPACE
    THEN RStrip(SubSeq(s, 1, Len(s) - 1))
    ELSE s

Strip(s) == RStrip(LStrip(s))

IsNumber(s) == s # <<>> /\ \A i \in 1..Len(s) : s[i] \in DIGITS

RECURSIVE IsExpr(_), IsFactor(_)
IsFactor(s) ==
    LET t == Strip(s) IN
    \/ IsNumber(t)
    \/ /\ Len(t) >= 3
       /\ t[1] = "("
       /\ t[Len(t)] = ")"
       /\ IsExpr(SubSeq(t, 2, Len(t) - 1))

\* s is an expression whose last operator stands at position k
SplitsAt(s, k) ==
    /\ s[k] \in {"+", "-"}
    /\ IsFactor(SubSeq(s, k + 1, Len(s)))
    /\ IsExpr(SubSeq(s, 1, k - 1))

IsExpr(s) == IsFactor(s) \/ \E k \in 2..(Len(s) - 1) : SplitsAt(s, k)

RECURSIVE PostfixExpr(_), PostfixFactor(_)
PostfixFactor(s) ==
    LET t == Strip(s) IN
    IF IsNumber(t) THEN t \o <<" ">> ELSE PostfixExpr(SubSeq(t, 2, Len(t) - 1))

PostfixExpr(s) ==
    IF IsFactor(s) THEN PostfixFactor(s)
    ELSE LET k == CHOOSE k \in 2..(Len(s) - 1) : SplitsAt(s, k) IN
         PostfixExpr(SubSeq(s, 1, k - 1)) \o PostfixFactor(SubSeq(s, k + 1, Len(s)))
             \o <<s[k], " ">>

\* go() has ended, by a return or by a TranslationError
Ended == pc \in {"returned", "raised"}

\* The 0-based index of the first character of the lexeme of the lookahead
\* token, while the lexer stands where it produced that token.
LexemeStart ==
    lexer.pos - Len(lookahead.value) - (IF lexer.buffer # NoChar THEN 1 ELSE 0)

(***************************************************************************)
(* Properties                                                              *)
(***************************************************************************)

\* C1: for every well-formed input, go() returns without an error and the
\* string it returns is the left-associative postfix rendering of the input:
\* each number followed by one space, each operator followed by one space
\* after the whole output of its right operand.
C1_WellFormedTranslates ==
    (Ended /\ IsExpr(expression)) =>
        /\ pc = "returned"
        /\ error = NoError
        /\ retval = PostfixExpr(expression)

C1_Witness ==
    /\ pc = "returned"
    /\ expression = <<"1", "+", "2", "-", "3">>
    /\ retval = <<"1", " ", "2", " ", "+", " ", "3", " ", "-", " ">>

\* C2: when a token other than a number or "(" stands where a factor is
\* expected, the error raised carries the index of the first character of
\* that token and reports the token's lexeme.
C2_UnexpectedTokenOffset ==
    (pc = "raised" /\ error.fmt = "expected term but found \"%s\"") =>
        /\ error.arg = lookahead.value
        /\ error.offset = LexemeStart

\* C3: every token the lexer produces carries as offset the index of the
\* first character of its lexeme.
C3_TokenOffsetIsFirstCharacter ==
    (lookahead # None /\ error = NoError) => lookahead.offset = LexemeStart

\* C4: the error raised for a character that matches no token rule carries
\* the index of that character and names the character.
C4_InvalidCharacterOffset ==
    (pc = "raised" /\ error.fmt = "invalid character: %s") =>
        /\ lexer.pos >= 1
        /\ error.arg = <<expression[lexer.pos]>>
        /\ error.offset = lexer.pos - 1

\* C5: a well-formed expression followed by "+" or "-" as the last character
\* of the input fails with "expected term but reached end-of-input" at the
\* index one past that operator, which is the length of the input.
C5_TrailingOperator ==
    LET n == Len(expression) IN
    (/\ Ended
     /\ n >= 2
     /\ expression[n] \in {"+", "-"}
     /\ IsExpr(SubSeq(expression, 1, n - 1))) =>
        /\ pc = "raised"
        /\ error = TranslationError(n, "expected term but reached end-of-input", <<>>)

C5_Witness ==
    /\ pc = "raised"
    /\ expression = <<"1", "+">>
    /\ error = TranslationError(2, "expected term but reached end-of-input", <<>>)

\* C6: in the line-oriented lexer each of + - * / ( ) ; yields a token of the
\* kind named after it, with the character as its lexeme.
C6_SingleCharacterKinds ==
    /\ token.lexeme = <<"+">> => token.id = T_ADD
    /\ token.lexeme = <<"-">> => token.id = T_SUBTRACT
    /\ token.lexeme = <<"*">> => token.id = T_MULTIPLY
    /\ token.lexeme = <<"/">> => token.id = T_DIVIDE
    /\ token.lexeme = <<"(">> => token.id = T_LPAREN2
    /\ token.lexeme = <<")">> => token.id = T_RPAREN2
    /\ token.lexeme = <<";">> => token.id = T_EXPR_SEP

\* C7: after any sequence of token pulls lineno is the number of lines
\* started and linecol is the number of characters of the current line
\* consumed so far, so that on a ParseException (lineno, linecol) is the
\* 1-based line and column of the offending character.
C7_LineAndColumn ==
    /\ lineno = f
    /\ linecol = chars.pos - (IF chars._pushback # NoChar THEN 1 ELSE 0)
    /\ lpc = "raised" =>
        /\ linecol = chars.pos
        /\ line[linecol] = parse_exception

\* C8: go() ends either by returning the whole buffer or by raising a
\* TranslationError, never both, and after an error main holds no
\* translation, whatever the buffer contains.
C8_NoPartialOutput ==
    /\ pc = "returned" => (error = NoError /\ retval = result)
    /\ pc = "raised" => (error # NoError /\ retval = NoString)
    /\ pc = "done" =>
        \/ /\ printed.kind = "translation"
           /\ printed.translation = result
           /\ error = NoError
        \/ /\ printed.kind = "error"
           /\ printed.translation = NoString
           /\ retval = NoString
           /\ error # NoError

C8_Witness ==
    /\ pc = "done"
    /\ printed.kind = "error"
    /\ result # <<>>

\* The first lexeme of a string that starts with a digit or a parenthesis
RECURSIVE DigitRun(_)
DigitRun(r) ==
    IF r # <<>> /\ Head(r) \in DIGITS THEN <<Head(r)>> \o DigitRun(Tail(r)) ELSE <<>>

FirstLexeme(r) == IF Head(r) \in DIGITS THEN DigitRun(r) ELSE <<Head(r)>>

\* s[k+1..] starts, after whitespace, with a token among firsts that is not
\* the continuation of a number ending at s[k]
TokenFollows(s, k, firsts) ==
    LET r == LStrip(SubSeq(s, k + 1, Len(s))) IN
    /\ r # <<>>
    /\ Head(r) \in firsts
    /\ ~(s[k] \in DIGITS /\ s[k + 1] \in DIGITS)

\* The error go() raises when the token after s[1..k] is left over
ExtraneousError(s, k) ==
    LET r == LStrip(SubSeq(s, k + 1, Len(s))) IN
    TranslationError(Len(s) - Len(r) + Len(FirstLexeme(r)),
                     "extranuous characters: \"%s\"", FirstLexeme(r))

C10_Inputs ==
    LET t == LStrip(expression) IN
    (Ended /\ t # <<>> /\ Head(t) = "(") =>
        \A k \in 2..Len(t) :
            IsExpr(SubSeq(t, 2, k)) =>
                /\ LStrip(SubSeq(t, k + 1, Len(t))) = <<>> =>
                    /\ pc = "raised"
                    /\ error = TranslationError(Len(expression),
                                   "expected RPAREN but reached end-of-input", <<>>)
                /\ TokenFollows(t, k, DIGITS \cup {"("}) =>
                    /\ pc = "raised"
                    /\ error.fmt = "expected RPAREN but got \"%s\""
                    /\ error.arg = FirstLexeme(LStrip(SubSeq(t, k + 1, Len(t))))
                    /\ error.offset = lexer.offset

\* C10, on steps: where t_factor has read "(" and an inner expression
C10_Step ==
    pc = "t_factor:199" =>
        IF lookahead = None
        THEN /\ pc' = "raised"
             /\ error' = TranslationError(lexer.offset,
                             "expected RPAREN but reached end-of-input", <<>>)
        ELSE IF lookahead.id # T_RPAREN
        THEN /\ pc' = "raised"
             /\ error' = TranslationError(lexer.offset,
                             "expected RPAREN but got \"%s\"", lookahead.value)
        ELSE \/ /\ pc' = Head(stack)
                /\ lookahead' # lookahead
                /\ error' = NoError
             \/ /\ pc' = "raised"
                /\ error'.fmt = "invalid character: %s"
                /\ lexer'.pos > lexer.pos

\* C10: after "(" and a complete inner expression the translation fails with
\* "expected RPAREN but reached end-of-input" when the input is exhausted and
\* with "expected RPAREN but got ..." when the next token is not ")"; it
\* goes on only when the next token is ")", which it consumes.
C10_ClosingParenthesis == [][C10_Step /\ C10_Inputs']_vars

C10_Witness ==
    /\ pc = "raised"
    /\ expression = <<"(", "1", " ", "2">>
    /\ error = TranslationError(4, "expected RPAREN but got \"%s\"", <<"2">>)

\* C11: parentheses are transparent.  When main has translated a well-formed
\* e and then "(" e ")", the second translation succeeds and prints exactly
\* what the first printed; "1+2-3" and "(1+2)-3" print the same; and no
\* buffer, return value or printed translation contains a parenthesis.
C11_ParenthesesTransparent ==
    /\ \A i \in 1..Len(result) : result[i] \notin {"(", ")"}
    /\ \A i \in 1..Len(stdout) :
        \A j \in 1..Len(stdout[i].printed.translation) :
            stdout[i].printed.translation[j] \notin {"(", ")"}
    /\ Len(stdout) = 2 =>
        /\ (/\ stdout[2].expression = Parenthesized(stdout[1].expression)
            /\ \/ IsExpr(stdout[1].expression)
               \/ stdout[1].printed.kind = "translation") =>
                /\ stdout[1].printed.kind = "translation"
                /\ stdout[2].printed = stdout[1].printed
        /\ (/\ stdout[1].expression = <<"1", "+", "2", "-", "3">>
            /\ stdout[2].expression = <<"(", "1", "+", "2", ")", "-", "3">>) =>
                /\ stdout[1].printed.kind = "translation"
                /\ stdout[2].printed = stdout[1].printed

C11_Witness ==
    /\ Len(stdout) = 2
    /\ stdout[1].expression = <<"1", "+", "2">>
    /\ stdout[2].expression = <<"(", "1", "+", "2", ")">>
    /\ stdout[2].printed.translation = <<"1", " ", "2", " ", "+", " ">>

\* C12: an input that is one numeric literal is returned digit for digit,
\* leading zeros included, followed by one space and nothing else.
C12_SingleLiteral ==
    (Ended /\ IsNumber(expression)) =>
        /\ pc = "returned"
        /\ retval = expression \o <<" ">>

C12_Witness ==
    /\ pc = "returned"
    /\ expression = <<"0", "0", "7">>
    /\ retval = <<"0", "0", "7", " ">>

\* C13: in both lexers a character pushed back is the next character read,
\* the stream is not advanced by that read, and in the offset-tracking lexer
\* the pushback takes one off the offset and the re-read puts it back.
C13_PushbackThenRead ==
    /\ lexer.buffer = NoChar =>
        \A c \in Alphabet :
            LET u == _ungetchar(lexer, c)
                g == _getchar(expression, u)
            IN /\ u.offset = lexer.offset - 1
               /\ ~g.stop
               /\ g.c = c
               /\ g.lex.offset = lexer.offset
               /\ g.lex.pos = lexer.pos
               /\ g.lex.buffer = NoChar
    /\ lexer.buffer # NoChar =>
        LET g == _getchar(expression, lexer) IN
        /\ ~g.stop
        /\ g.c = lexer.buffer
        /\ g.c = expression[lexer.pos]
        /\ g.lex.pos = lexer.pos
        /\ g.lex.offset = lexer.pos
        /\ g.lex.buffer = NoChar
    /\ chars._pushback = NoChar =>
        \A c \in Alphabet :
            LET g == CharacterIterator_next(line, pushback(chars, c)) IN
            /\ ~g.stop
            /\ g.c = c
            /\ g.it = chars
    /\ chars._pushback # NoChar =>
        LET g == CharacterIterator_next(line, chars) IN
        /\ ~g.stop
        /\ g.c = chars._pushback
        /\ g.c = line[chars.pos]
        /\ g.it.pos = chars.pos
        /\ g.it._pushback = NoChar

C13_Witness ==
    /\ lexer.buffer = "+"
    /\ lookahead.id = T_NUMBER
    /\ _getchar(expression, lexer).c = "+"

(***************************************************************************)
(* The lexemes of a line of the line-oriented lexer: whitespace separates, *)
(* a digit starts the longest run of digits, a letter the longest run of   *)
(* letters and digits, each of + - * / ( ) ; stands alone, and the         *)
(* lexemes end at the first character that is none of these.               *)
(***************************************************************************)
Punctuation == {"+", "-", "*", "/", "(", ")", ";"}

isalnum(c) == isalpha(c) \/ isdigit(c)

IsInvalid(c) == ~(isspace(c) \/ isalnum(c) \/ c \in Punctuation)

HasInvalid(s) == \E i \in 1..Len(s) : IsInvalid(s[i])

RECURSIVE SkipSpace(_)
SkipSpace(s) == IF s # <<>> /\ isspace(Head(s)) THEN SkipSpace(Tail(s)) ELSE s

RECURSIVE AlnumRun(_)
AlnumRun(r) ==
    IF r # <<>> /\ isalnum(Head(r)) THEN <<Head(r)>> \o AlnumRun(Tail(r)) ELSE <<>>

RECURSIVE Lexemes(_)
Lexemes(s) ==
    LET t == SkipSpace(s) IN
    IF t = <<>> THEN <<>>
    ELSE LET c == Head(t)
             lx == IF isdigit(c) THEN DigitRun(t)
                   ELSE IF isalpha(c) THEN AlnumRun(t)
                   ELSE IF c \in Punctuation THEN <<c>>
                   ELSE <<>>
         IN IF lx = <<>> THEN <<>>
            ELSE <<lx>> \o Lexemes(SubSeq(t, Len(lx) + 1, Len(t)))

YieldedLexemes == [i \in 1..Len(yielded) |-> yielded[i].lexeme]

IsPrefix(a, b) == Len(a) <= Len(b) /\ SubSeq(b, 1, Len(a)) = a

\* C14: the tokens yielded for a line are the line's lexemes in order; a line
\* without an invalid character is closed by exactly one T_EOF token, an
\* empty or all-whitespace line yields only that token, a line with an
\* invalid character is not closed, and the number of T_EOF tokens is the
\* number of lines tokenized to their end.
C14_TokensThenEof ==
    /\ lpc = "inline" =>
        /\ yielded # <<>>
        /\ IsPrefix(YieldedLexemes, Lexemes(line))
        /\ \A i \in 1..Len(yielded) : yielded[i].id # T_EOF
    /\ lpc = "eol" =>
        /\ ~HasInvalid(line)
        /\ YieldedLexemes = Lexemes(line) \o <<NoString>>
        /\ \A i \in 1..Len(yielded) : (yielded[i].id = T_EOF) <=> (i = Len(yielded))
        /\ SkipSpace(line) = <<>> => yielded = <<LexerToken(T_EOF, NoString)>>
    /\ lpc = "raised" =>
        /\ HasInvalid(line)
        /\ YieldedLexemes = Lexemes(line)
        /\ \A i \in 1..Len(yielded) : yielded[i].id # T_EOF
    /\ eofs = (IF lpc \in {"inline", "raised"} \/ parse_exception # NoChar
               THEN f - 1 ELSE f)

C14_Witness ==
    /\ lpc = "eol"
    /\ f = 2
    /\ eofs = 2
    /\ line = <<"1", "2", " ", "+", " ", "x", "1", "\n">>
    /\ Len(yielded) = 4

\* The characters consumed from the current line, a pending pushback not
\* counted
Consumed == chars.pos - (IF chars._pushback # NoChar THEN 1 ELSE 0)

\* The token yielded last is the run of characters of kind InRun that ends
\* where the iterator stands, it cannot be extended to the right, and the
\* character that ended it is pending as the next character to be read.
MaximalMunch2(InRun(_)) ==
    LET end == Consumed
        start == end - Len(token.lexeme) + 1
    IN /\ start >= 1
       /\ token.lexeme = SubSeq(line, start, end)
       /\ \A i \in start..end : InRun(line[i])
       /\ IF end < Len(line)
          THEN /\ ~InRun(line[end + 1])
               /\ chars._pushback = line[end + 1]
               /\ CharacterIterator_next(line, chars).c = line[end + 1]
          ELSE chars._pushback = NoChar

\* The same for the NUMBER token that is the lookahead of the translator
MaximalMunch1 ==
    LET end == lexer.pos - (IF lexer.buffer # NoChar THEN 1 ELSE 0)
        start == end - Len(lookahead.value) + 1
    IN /\ start >= 1
       /\ lookahead.value = SubSeq(expression, start, end)
       /\ \A i \in start..end : expression[i] \in DIGITS
       /\ start > 1 => expression[start - 1] \notin DIGITS
       /\ IF end < Len(expression)
          THEN /\ expression[end + 1] \notin DIGITS
               /\ lexer.buffer = expression[end + 1]
               /\ _getchar(expression, lexer).c = expression[end + 1]
          ELSE lexer.buffer = NoChar

\* C15: scanning is maximal-munch in both lexers: a NUMBER token is a whole
\* run of digits and an identifier-shaped token a letter followed by a whole
\* run of letters and digits; the character that ended the run is pushed back
\* and read next; "123abc" yields NUMBER "123" and then the identifier "abc".
C15_MaximalMunch ==
    /\ (lpc = "inline" /\ token.id = T_NUMBER2) =>
        /\ MaximalMunch2(isdigit)
        /\ Consumed > Len(token.lexeme) =>
            ~isalnum(line[Consumed - Len(token.lexeme)])
    /\ (lpc = "inline" /\ token.id \in {T_ID, T_MODULO, T_INTDIVIDE}) =>
        /\ MaximalMunch2(isalnum)
        /\ isalpha(Head(token.lexeme))
        /\ Consumed > Len(token.lexeme) =>
            ~isalpha(line[Consumed - Len(token.lexeme)])
    /\ (lpc = "eol" /\ line = <<"1", "2", "3", "a", "b", "c">>) =>
        yielded = << LexerToken(T_NUMBER2, <<"1", "2", "3">>),
                     LexerToken(T_ID, <<"a", "b", "c">>),
                     LexerToken(T_EOF, NoString) >>
    /\ (lookahead.id = T_NUMBER /\ error = NoError) => MaximalMunch1

C15_Witness ==
    /\ lpc = "inline"
    /\ line = <<"1", "2", "3", "a", "b", "c">>
    /\ yielded = << LexerToken(T_NUMBER2, <<"1", "2", "3">>),
                    LexerToken(T_ID, <<"a", "b", "c">>) >>

Reserved == {<<"m", "o", "d">>, <<"d", "i", "v">>}

C16_Tokens ==
    /\ Reserved \subseteq DOMAIN symbol_table
    /\ symbol_table[<<"m", "o", "d">>] = LexerToken(T_MODULO, <<"m", "o", "d">>)
    /\ symbol_table[<<"d", "i", "v">>] = LexerToken(T_INTDIVIDE, <<"d", "i", "v">>)
    /\ \A x \in DOMAIN symbol_table :
        /\ symbol_table[x].lexeme = x
        /\ x \notin Reserved => symbol_table[x].id = T_ID
    /\ \A i \in 1..Len(yielded) :
        LET t == yielded[i] IN
        /\ t.lexeme = <<"m", "o", "d">> => t.id = T_MODULO
        /\ t.lexeme = <<"d", "i", "v">> => t.id = T_INTDIVIDE
        /\ t.id = T_ID => t.lexeme \notin Reserved
        /\ (t.id # T_EOF /\ isalpha(Head(t.lexeme))) =>
            /\ t.id \in {T_ID, T_MODULO, T_INTDIVIDE}
            /\ t.lexeme \in DOMAIN symbol_table
            /\ symbol_table[t.lexeme] = t

C16_Step ==
    \A x \in DOMAIN symbol_table :
        /\ x \in DOMAIN symbol_table'
        /\ symbol_table'[x] = symbol_table[x]

\* C16: "mod" and "div" always yield the pre-registered T_MODULO and
\* T_INTDIVIDE tokens, never T_ID; every other identifier yields the T_ID
\* token the symbol table holds for its spelling; and an entry of the symbol
\* table, reserved or interned, is never removed or replaced.
C16_KeywordsAndInterning == [][C16_Step /\ C16_Tokens']_vars

C16_Witness ==
    /\ f = 2
    /\ line = <<"m", "o", "d">>
    /\ token = LexerToken(T_MODULO, <<"m", "o", "d">>)
    /\ <<"a">> \in DOMAIN symbol_table
    /\ symbol_table[<<"a">>] = LexerToken(T_ID, <<"a">>)

(***************************************************************************)
(* The tokens of a string for the translator, read off its characters      *)
(* from the 0-based position p on: whitespace separates, a run of digits   *)
(* is one NUMBER, each of + - ( ) is a token, and the tokens end at the    *)
(* first character that is none of these.  A token carries the index one   *)
(* past its lexeme.                                                        *)
(***************************************************************************)
SingleId(c) ==
    IF c = "+" THEN T_PLUS
    ELSE IF c = "-" THEN T_MINUS
    ELSE IF c = "(" THEN T_LPAREN
    ELSE T_RPAREN

RECURSIVE Tokens(_, _)
Tokens(s, p) ==
    IF p >= Len(s) THEN <<>>
    ELSE LET c == s[p + 1] IN
         IF c \in WHITESPACE THEN Tokens(s, p + 1)
         ELSE IF c \in DIGITS
         THEN LET v == DigitRun(SubSeq(s, p + 1, Len(s))) IN
              <<Token(T_NUMBER, v, p + Len(v))>> \o Tokens(s, p + Len(v))
         ELSE IF c \in {"+", "-", "(", ")"}
         THEN <<Token(SingleId(c), <<c>>, p + 1)>> \o Tokens(s, p + 1)
         ELSE <<>>

Lexable(s) ==
    \A i \in 1..Len(s) : s[i] \in WHITESPACE \cup DIGITS \cup {"+", "-", "(", ")"}

\* expr := factor (('+'|'-') factor)*, factor := NUMBER | '(' expr ')', on a
\* sequence of tokens
RECURSIVE DerivesExpr(_), DerivesFactor(_)
DerivesFactor(ts) ==
    \/ Len(ts) = 1 /\ ts[1].id = T_NUMBER
    \/ /\ Len(ts) >= 3
       /\ ts[1].id = T_LPAREN
       /\ ts[Len(ts)].id = T_RPAREN
       /\ DerivesExpr(SubSeq(ts, 2, Len(ts) - 1))

DerivesExpr(ts) ==
    \/ DerivesFactor(ts)
    \/ \E k \in 2..(Len(ts) - 1) :
        /\ ts[k].id \in {T_PLUS, T_MINUS}
        /\ DerivesFactor(SubSeq(ts, 1, k - 1))
        /\ DerivesExpr(SubSeq(ts, k + 1, Len(ts)))

\* C17: go() returns a result exactly when the input has no invalid
\* character and its tokens, whitespace discarded, are derivable from expr;
\* otherwise it raises a TranslationError, as for "" and "()".
C17_AcceptsExactlyTheGrammar ==
    Ended =>
        LET derivable ==
                Lexable(expression) /\ DerivesExpr(Tokens(expression, 0))
        IN /\ (pc = "returned") <=> derivable
           /\ (pc = "raised") <=> ~derivable
           /\ pc = "returned" => (retval # NoString /\ error = NoError)
           /\ pc = "raised" => (retval = NoString /\ error # NoError)
           /\ expression \in {<<>>, <<"(", ")">>} => pc = "raised"

C17_Witness ==
    /\ pc = "raised"
    /\ expression = <<"(", ")">>
    /\ error # NoError

\* The step consumes the lookahead: a production matches it
Consuming ==
    /\ lookahead # None
    /\ \/ pc = "t_factor" /\ lookahead.id \in {T_NUMBER, T_LPAREN}
       \/ pc = "t_rest" /\ lookahead.id \in {T_PLUS, T_MINUS}
       \/ pc = "t_factor:199" /\ lookahead.id = T_RPAREN

\* The lookahead after the first k tokens of the input are consumed: the
\* next token, None after the last one, and unchanged by the pull that
\* meets an invalid character
Unconsumed(k) ==
    LET ts == Tokens(expression, 0) IN
    IF k < Len(ts)
    THEN /\ lookahead' = ts[k + 1]
         /\ pc' # "raised"
    ELSE IF Lexable(expression)
    THEN /\ lookahead' = None
         /\ lexer'.pos = Len(expression)
         /\ pc' # "raised"
    ELSE /\ lookahead' = lookahead
         /\ pc' = "raised"
         /\ error'.fmt = "invalid character: %s"

C18_Step ==
    LET ts == Tokens(expression, 0) IN
    pc \notin {"done", "exit", "idle"} =>
        IF pc = "go" THEN Unconsumed(0)
        ELSE IF Consuming
        THEN \E k \in 1..Len(ts) : ts[k] = lookahead /\ Unconsumed(k)
        ELSE lookahead' = lookahead

\* Unless it has met an invalid character, the lexer stands right after the
\* lookahead token: no token is pulled ahead
C18_OneTokenHeld ==
    (/\ pc' \notin {"go", "done", "exit", "idle"}
     /\ lookahead' # None
     /\ error'.fmt # "invalid character: %s") =>
        /\ lexer'.pos - (IF lexer'.buffer # NoChar THEN 1 ELSE 0) = lookahead'.offset
        /\ \E k \in 1..Len(Tokens(expression', 0)) :
            Tokens(expression', 0)[k] = lookahead'

\* C18: go() makes the first token of the input the lookahead; a step in
\* which a production matches the lookahead replaces it by the next token of
\* the input, or by None when it was the last one; every other step leaves it
\* alone; and the lexer never stands beyond the token held.
C18_LookaheadIsNextUnconsumed == [][C18_Step /\ C18_OneTokenHeld]_vars

C18_Witness ==
    /\ pc = "t_rest"
    /\ expression = <<"1", "+", "2", "-", "3">>
    /\ lookahead = Token(T_MINUS, <<"-">>, 4)

\* The characters the lexer has consumed, a pending pushback not counted
Consumed1(lex) == lex.pos - (IF lex.buffer # NoChar THEN 1 ELSE 0)

\* The tokens not yet consumed: the lookahead and what follows it
Remaining(la, lex) ==
    Len(Tokens(expression, Consumed1(lex))) + (IF la # None THEN 1 ELSE 0)

C19_Progress ==
    pc \notin {"done", "exit", "idle"} =>
        \* a call of __next__ consumes a character or signals the end of input
        /\ lexer' # lexer =>
            \/ Consumed1(lexer') > Consumed1(lexer)
            \/ lookahead' = None /\ pc' # "raised"
        \* an iteration of the loop of t_rest, and a call of t_factor that
        \* does not raise, consume a token
        /\ (pc = "t_rest" /\ pc' = "t_factor") =>
            Remaining(lookahead', lexer') < Remaining(lookahead, lexer)
        /\ (pc = "t_factor" /\ pc' # "raised") =>
            Remaining(lookahead', lexer') < Remaining(lookahead, lexer)
        /\ Consumed1(lexer') >= Consumed1(lexer)
        /\ Consumed1(lexer') <= Len(expression)

\* C19: every translation that is started ends, with a result or with an
\* error, and the program exits; on the way every call of __next__ consumes a
\* character or signals the end of input, and every iteration of the loop of
\* t_rest and every call of t_factor that goes on consumes a token.
C19_Terminates ==
    /\ (pc = "go") ~> Ended
    /\ <>(pc = "exit")
    /\ [][C19_Progress]_vars

C19_Witness ==
    /\ pc = "exit"
    /\ Len(stdout) = 3
    /\ stdout[2].printed.kind = "error"
    /\ stdout[3].printed.kind = "translation"
    /\ exit_code = 1

\* C20: in both lexers every pushback so far found the slot empty; a pending
\* character comes from a read of the input; and the offset of the
\* offset-tracking lexer lies between 0 and the length of the input.
C20_SinglePushback ==
    /\ lexer.asserted
    /\ chars.asserted
    /\ lexer.offset >= 0
    /\ lexer.offset <= Len(expression)
    /\ lexer.buffer # NoChar => (lexer.pos >= 1 /\ lexer.pos <= Len(expression))
    /\ chars._pushback # NoChar => (chars.pos >= 1 /\ chars.pos <= Len(line))

C20_Witness ==
    /\ lpc = "inline"
    /\ token.id = T_ID
    /\ chars._pushback = "+"
    /\ chars.asserted

====
